---------------------------- MODULE Spec2Model ----------------------------
(***************************************************************************)
(* Email delivery of the patient portal: accounts/sendgrid_utils.py        *)
(* (credential collector, HTTP and SMTP transports, delivery orchestrator) *)
(* and peds_edu/aws_secrets.py (secret resolver).                          *)
(*                                                                         *)
(* A Python str is a sequence of atoms.  An atom is one character, except  *)
(* that a JSON member name ("api_key", ...) is written as a single atom.   *)
(***************************************************************************)
EXTENDS Naturals, Sequences, FiniteSets, TLC

(* ------------------------------ bounds --------------------------------- *)
\* longest to_emails list handed to the orchestrator
MaxRecipients == 2
\* longest to_emails list in the runs that study normalisation
MaxToEmails == 3
\* most members of a JSON secret payload
MaxFields == 2
\* most secret lookups made in one run of the process
MaxLookups == 3
\* most videos in the catalog database
MaxVideos == 1
\* most calls of get_catalog_json_cached in one run
MaxCatalogCalls == 3
\* modulus of the checksum that stands for the 12 hex digits of sha256
HashMod == 5

(* ------------------------------ atoms ---------------------------------- *)
SP == " "
NL == "\n"
DQ == "\""
SQ == "'"
LB == "{"
RB == "}"
COLON == ":"
COMMA == ","
\* the two-character JSON escape \" inside a JSON string
ESCQ == "\\q"
\* a JSON number
NUM == "7"

Whitespace == {SP, NL}

(* ----------------------- str methods (Python) -------------------------- *)
RECURSIVE LStrip(_)
LStrip(s) ==
    IF s # << >> /\ Head(s) \in Whitespace THEN LStrip(Tail(s)) ELSE s

RECURSIVE RStrip(_)
RStrip(s) ==
    IF s # << >> /\ s[Len(s)] \in Whitespace
    THEN RStrip(SubSeq(s, 1, Len(s) - 1))
    ELSE s

\* str.strip()
Strip(s) == RStrip(LStrip(s))

\* str.lower() on one atom
LowerAtom(c) ==
    CASE c = "B" -> "b"
      [] c = "E" -> "e"
      [] c = "A" -> "a"
      [] c = "R" -> "r"
      [] c = "SMTP" -> "smtp"
      [] c = "SendGrid" -> "sendgrid"
      [] OTHER -> c

\* str.lower()
Lower(s) == [i \in 1..Len(s) |-> LowerAtom(s[i])]

\* str.startswith(p)
StartsWith(s, p) == Len(s) >= Len(p) /\ SubSeq(s, 1, Len(p)) = p

\* str.endswith(p)
EndsWith(s, p) ==
    Len(s) >= Len(p) /\ SubSeq(s, Len(s) - Len(p) + 1, Len(s)) = p

\* s[a:] with a >= 0
SliceFrom(s, a) == SubSeq(s, a + 1, Len(s))

\* s[1:-1]
Inner(s) == SubSeq(s, 2, Len(s) - 1)

BearerPrefix == <<"b", "e", "a", "r", "e", "r", SP>>

(* ------------------------- _sanitize_secret ---------------------------- *)
\* lines 35-36
Unbearer(s) ==
    IF StartsWith(Lower(s), BearerPrefix) THEN Strip(SliceFrom(s, 7)) ELSE s

\* lines 37-38
Unquote(s) ==
    IF \/ StartsWith(s, <<DQ>>) /\ EndsWith(s, <<DQ>>)
       \/ StartsWith(s, <<SQ>>) /\ EndsWith(s, <<SQ>>)
    THEN Strip(Inner(s)) ELSE s

\* lines 33-39, s already stripped
SanitizeStripped(s) ==
    IF s = << >> THEN << >> ELSE Strip(Unquote(Unbearer(s)))

_sanitize_secret(s) == SanitizeStripped(Strip(s))

(* ----------------------------- json.loads ------------------------------ *)
\* index of the first non-whitespace atom at or after i (Len(s)+1 if none)
RECURSIVE SkipWs(_, _)
SkipWs(s, i) ==
    IF i <= Len(s) /\ s[i] \in Whitespace THEN SkipWs(s, i + 1) ELSE i

\* index of the closing quote of the JSON string whose body starts at i
\* (0 if the string is not closed)
RECURSIVE CloseQuote(_, _)
CloseQuote(s, i) ==
    IF i > Len(s) THEN 0
    ELSE IF s[i] = DQ THEN i
    ELSE CloseQuote(s, i + 1)

\* the str a JSON string body decodes to
Unescape(body) == [i \in 1..Len(body) |-> IF body[i] = ESCQ THEN DQ ELSE body[i]]

ParseFail == [ok |-> FALSE, obj |-> << >>]

NonString == [isStr |-> FALSE, s |-> << >>]

\* a JSON string value that decodes to v
JsonStringOf(v) == [isStr |-> TRUE, s |-> v]

JsonString(body) == JsonStringOf(Unescape(body))

\* the members of an object, from index i on; acc holds the members read
RECURSIVE ParseMembers(_, _, _)

\* after a member: "," and another member, or "}" and nothing but whitespace
ParseNext(s, nxt, acc) ==
    IF nxt > Len(s) THEN ParseFail
    ELSE IF s[nxt] = RB
         THEN IF SkipWs(s, nxt + 1) = Len(s) + 1
              THEN [ok |-> TRUE, obj |-> acc] ELSE ParseFail
    ELSE IF s[nxt] = COMMA THEN ParseMembers(s, nxt + 1, acc)
    ELSE ParseFail

\* a string value opened at v and closed at vq
ParseStringEnd(s, name, v, vq, acc) ==
    IF vq = 0 THEN ParseFail
    ELSE ParseNext(s, SkipWs(s, vq + 1),
                   Append(acc, [k |-> name, v |-> JsonString(SubSeq(s, v + 1, vq - 1))]))

\* the value at v: a string or a number
ParseValue(s, name, v, acc) ==
    IF v > Len(s) THEN ParseFail
    ELSE IF s[v] = DQ THEN ParseStringEnd(s, name, v, CloseQuote(s, v + 1), acc)
    ELSE IF s[v] = NUM
         THEN ParseNext(s, SkipWs(s, v + 1), Append(acc, [k |-> name, v |-> NonString]))
    ELSE ParseFail

ParseColon(s, name, c, acc) ==
    IF c > Len(s) \/ s[c] # COLON THEN ParseFail
    ELSE ParseValue(s, name, SkipWs(s, c + 1), acc)

\* a member name opened at n and closed at nq
ParseNameEnd(s, n, nq, acc) ==
    IF nq = 0 THEN ParseFail
    ELSE ParseColon(s, Unescape(SubSeq(s, n + 1, nq - 1)), SkipWs(s, nq + 1), acc)

ParseName(s, n, acc) ==
    IF n <= Len(s) /\ s[n] = DQ
    THEN ParseNameEnd(s, n, CloseQuote(s, n + 1), acc)
    ELSE ParseFail

ParseMembers(s, i, acc) == ParseName(s, SkipWs(s, i), acc)

\* an object text whose "{" is at b
ParseObject(s, b, e) ==
    IF e <= Len(s) /\ s[e] = RB
    THEN IF SkipWs(s, e + 1) = Len(s) + 1
         THEN [ok |-> TRUE, obj |-> << >>] ELSE ParseFail
    ELSE ParseMembers(s, b + 1, << >>)

JsonLoadsAt(s, b) ==
    IF b > Len(s) \/ s[b] # LB THEN ParseFail
    ELSE ParseObject(s, b, SkipWs(s, b + 1))

\* json.loads(raw) for an object text; ok = FALSE stands for the exception
JsonLoads(s) == JsonLoadsAt(s, SkipWs(s, 1))

\* dict.get(k): the last member named k wins, None when there is none
HasMember(obj, k) == \E i \in 1..Len(obj) : obj[i].k = k

DictGet(obj, k) ==
    LET last == CHOOSE i \in 1..Len(obj) :
                    /\ obj[i].k = k
                    /\ \A j \in (i + 1)..Len(obj) : obj[j].k # k
    IN  obj[last].v

(* ----------------------- _extract_sendgrid_key ------------------------- *)
\* the member names tried, in the order of the tuple of lines 57-69
KeyNames ==
    << "SendGrid_email", "sendgrid_email", "SENDGRID_API_KEY",
       "sendgrid_api_key", "api_key", "apikey", "key", "SENDGRID_KEY",
       "sendgrid_key" >>

\* isinstance(v, str) and v.strip()
UsableValue(v) == v.isStr /\ Strip(v.s) # << >>

Usable(obj, k) == HasMember(obj, <<k>>) /\ UsableValue(DictGet(obj, <<k>>))

UsableIdx(obj) == {i \in 1..Len(KeyNames) : Usable(obj, KeyNames[i])}

MinOrZero(S) == IF S = {} THEN 0 ELSE CHOOSE i \in S : \A j \in S : i <= j

MaxOrZero(S) == IF S = {} THEN 0 ELSE CHOOSE i \in S : \A j \in S : j <= i

\* the loop of lines 57-72 with a mutation: the last usable name wins
LastUsable(obj) == MaxOrZero(UsableIdx(obj))

\* index in KeyNames of the first usable member (lines 57-72), 0 when none
FirstUsable(obj) == MinOrZero(UsableIdx(obj))

\* line 72, or line 76 when no name of the tuple is usable
ExtractAt(r, obj, f) ==
    IF f # 0 THEN _sanitize_secret(DictGet(obj, <<KeyNames[f]>>).s)
    ELSE _sanitize_secret(r)

\* lines 55-76 once json.loads has answered
ExtractParsed(r, p) ==
    IF p.ok THEN ExtractAt(r, p.obj, FirstUsable(p.obj)) ELSE _sanitize_secret(r)

\* lines 50-76, raw already stripped
ExtractStripped(r) ==
    IF r = << >> THEN << >>
    ELSE IF StartsWith(r, <<LB>>) /\ EndsWith(r, <<RB>>)
         THEN ExtractParsed(r, JsonLoads(r))
    ELSE _sanitize_secret(r)

_extract_sendgrid_key(raw) == ExtractStripped(Strip(raw))

(* ---------------------- _fingerprint, _redacted_tail ------------------- *)
AtomCode(c) ==
    CASE c = "x" -> 1
      [] c = "y" -> 2
      [] c = "z" -> 3
      [] c = "S" -> 4
      [] c = "G" -> 5
      [] c = DQ -> 6
      [] c = SQ -> 7
      [] c = SP -> 8
      [] OTHER -> 9

\* hashlib.sha256(...).hexdigest()[:12]: a digest that forgets part of its
\* input, so that two different keys of one length can share it
RECURSIVE Sha12(_)
Sha12(s) ==
    IF s = << >> THEN 0 ELSE (AtomCode(Head(s)) + Sha12(Tail(s))) % HashMod

\* "missing", which no "len=.. sha256_12=.." equals
FpMissing == <<0, 0>>

\* f"len={len(secret)} sha256_12={h}"
_fingerprint(secret) ==
    IF secret = << >> THEN FpMissing ELSE <<Len(secret), Sha12(secret)>>

Max(a, b) == IF a >= b THEN a ELSE b

ShortTail == <<"<short>">>

\* secret[-n:], or "<short>" for a secret shorter than max(1, n)
_redacted_tail(secret, n) ==
    IF Len(secret) < Max(1, n) THEN ShortTail
    ELSE SubSeq(secret, Len(secret) - n + 1, Len(secret))

(* --------------------------- _KeyCandidate ----------------------------- *)
Min(a, b) == IF a <= b THEN a ELSE b

\* os.getenv("SENDGRID_KEY_TAIL_CHARS", "4") as text: the default when unset
TailSetting(en) ==
    IF en.SENDGRID_KEY_TAIL_CHARS = << >> THEN <<"4">>
    ELSE en.SENDGRID_KEY_TAIL_CHARS

\* int(...) of lines 136-139 on the texts the environment can hold here;
\* a text that is no number raises and gives 4
TailInt(txt) ==
    CASE txt = <<"2">> -> 2
      [] txt = <<"4">> -> 4
      [] txt = <<"9", "9">> -> 99
      [] OTHER -> 4

\* n of line 140
TailChars(en) == Max(2, Min(12, TailInt(TailSetting(en))))

\* the property tail (lines 134-141)
CandTail(key, en) == _redacted_tail(key, TailChars(en))

(* ------------------ _iter_sendgrid_api_key_candidates ------------------- *)
SrcAws == "aws_secrets"
SrcSettingsKey == "settings.SENDGRID_API_KEY"
SrcSettingsPw == "settings.EMAIL_HOST_PASSWORD"
SrcEnvKey == "env:SENDGRID_API_KEY"
SrcEnvPw == "env:EMAIL_HOST_PASSWORD"

\* the sources in the order candidates_raw is filled (lines 165-173)
SourceOrder == <<SrcAws, SrcSettingsKey, SrcSettingsPw, SrcEnvKey, SrcEnvPw>>

\* _get_secret_string_uncached: ((val or "").strip(), err or None); the
\* resolver's answer sec = [val, err] is read once per call, val = << >> is None
SecretRaw(sec) == Strip(sec.val)

\* candidates_raw (lines 165-173): the secret-store entry only when its
\* extraction secret_key is non-empty
CandidatesRawWith(secret_key, st, en) ==
    (IF secret_key # << >>
     THEN << [source |-> SrcAws, raw |-> secret_key] >> ELSE << >>)
    \o << [source |-> SrcSettingsKey, raw |-> st.SENDGRID_API_KEY],
          [source |-> SrcSettingsPw, raw |-> st.EMAIL_HOST_PASSWORD],
          [source |-> SrcEnvKey, raw |-> en.SENDGRID_API_KEY],
          [source |-> SrcEnvPw, raw |-> en.EMAIL_HOST_PASSWORD] >>

CandidatesRaw(sec, st, en) ==
    CandidatesRawWith(_extract_sendgrid_key(SecretRaw(sec)), st, en)

\* the keys of candidates_raw as line 178 extracts them
ExtractAll(raws) ==
    [i \in 1..Len(raws) |->
        [source |-> raws[i].source, key |-> _extract_sendgrid_key(raws[i].raw)]]

\* the loop of lines 177-185 with a mutation: the last source of a key wins
RECURSIVE DedupLastWins(_, _, _)
DedupLastWins(ks, i, acc) ==
    IF i > Len(ks) THEN acc
    ELSE IF \/ ks[i].key = << >>
            \/ \E j \in (i + 1)..Len(ks) :
                  _fingerprint(ks[j].key) = _fingerprint(ks[i].key)
         THEN DedupLastWins(ks, i + 1, acc)
         ELSE DedupLastWins(ks, i + 1, Append(acc, ks[i]))

\* the loop of lines 177-185 over the extracted keys: acc is out, seen is seen_fp
RECURSIVE DedupByFp(_, _, _, _)
DedupByFp(ks, i, acc, seen) ==
    IF i > Len(ks) THEN acc
    ELSE IF ks[i].key = << >> \/ _fingerprint(ks[i].key) \in seen
         THEN DedupByFp(ks, i + 1, acc, seen)
         ELSE DedupByFp(ks, i + 1, Append(acc, ks[i]),
                        seen \cup {_fingerprint(ks[i].key)})

CollectLastWins(sec, st, en) ==
    DedupLastWins(ExtractAll(CandidatesRaw(sec, st, en)), 1, << >>)

\* the list of _KeyCandidate the collector returns
_iter_sendgrid_api_key_candidates(sec, st, en) ==
    DedupByFp(ExtractAll(CandidatesRaw(sec, st, en)), 1, << >>, {})

\* the aws_diag record the collector returns beside the list
AwsDiag(sec) ==
    [aws_secret_error |-> sec.err, aws_secret_value_present |-> SecretRaw(sec) # << >>]

(* -------------------------- _get_backend_mode -------------------------- *)
ModeSendgrid == <<"sendgrid">>
ModeSmtp == <<"smtp">>
ModeConsole == <<"console">>

Recognized(v) == v \in {ModeSendgrid, ModeSmtp, ModeConsole}

\* line 200
ModeSetting(st) == Lower(Strip(st.EMAIL_BACKEND_MODE))

\* line 205
ModeByAvailability(cs) == IF cs # << >> THEN ModeSendgrid ELSE ModeSmtp

\* lines 199-205 with a mutation: "sendgrid" without looking at the candidates
BackendModeNoDefault(st, sec, en) ==
    IF Recognized(ModeSetting(st)) THEN ModeSetting(st) ELSE ModeSendgrid

_get_backend_mode(st, sec, en) ==
    IF Recognized(ModeSetting(st)) THEN ModeSetting(st)
    ELSE ModeByAvailability(_iter_sendgrid_api_key_candidates(sec, st, en))

\* whether _get_backend_mode runs the collector (line 204)
ModeNeedsCollector(st) == ~Recognized(ModeSetting(st))

\* providers of line 477, as provider tags
ProvidersFor(mode) ==
    IF mode = ModeSmtp THEN <<"smtp", "sendgrid">> ELSE <<"sendgrid", "smtp">>

(* ------------------------------- state --------------------------------- *)
VARIABLES
    settings,    \* django.conf.settings: SENDGRID_API_KEY, EMAIL_HOST_PASSWORD, EMAIL_BACKEND_MODE
    environ,     \* os.environ: SENDGRID_API_KEY, EMAIL_HOST_PASSWORD
    secret,      \* what the secret resolver answers: [val, err]
    sinkUp,      \* whether EmailLog accepts rows during this call
    args,        \* arguments of the call under study
    top,         \* the function called: "send", "sendgrid", "smtp", "collect", "extract"
    pc,          \* control point
    subject,     \* local subject of send_email_via_sendgrid
    recipients,  \* local recipients of send_email_via_sendgrid
    providers,   \* local providers (line 477)
    pi,          \* index of the provider of the current iteration of line 479
    cands,       \* local candidates of the running transport
    ci,          \* index of cand in the loop of line 287
    last,        \* last_status, last_err_text of the HTTP transport
    invoked,     \* transport calls made so far, with their arguments
    results,     \* what each transport call returned
    http,        \* POSTs to the mail API: candidate used and response
    smtpNet,     \* network operations against the SMTP host
    lookups,     \* secret-store lookups, one per run of the collector
    logCalls,    \* rows handed to _log_email_attempt
    emailLog,    \* rows of the EmailLog table
    ret,         \* result of the call under study
    out,         \* value returned by a collector or extraction call
    boto3,       \* aws_secrets: whether the import of lines 7-16 succeeded
    lastError,   \* aws_secrets._LAST_ERROR
    cache,       \* the lru_cache of get_secret_string, least recently used first
    storeCalls,  \* calls of client.get_secret_value made so far
    thr,         \* per thread: the secret lookup it is running
    lookupLog,   \* the secret lookups that have returned, in order of return
    catSeconds,  \* settings.CATALOG_CACHE_SECONDS: [set, val]
    db,          \* the Video rows of the database, in query order
    catalogCache, \* django.core.cache.cache: the entry of each key
    cat,         \* the call of get_catalog_json_cached: locals and trace
    rebuilt      \* the output of the latest rebuild of the catalog

vars == << settings, environ, secret, sinkUp, args, top, pc, subject,
           recipients, providers, pi, cands, ci, last, invoked, results,
           http, smtpNet, lookups, logCalls, emailLog, ret, out,
           boto3, lastError, cache, storeCalls, thr, lookupLog,
           catSeconds, db, catalogCache, cat, rebuilt >>

\* the state of sharing.services and of the cache and database it uses
catalogVars == <<catSeconds, db, catalogCache, cat, rebuilt>>

\* the state of peds_edu.aws_secrets and of the threads using it
resolverVars == <<boto3, lastError, cache, storeCalls, thr, lookupLog>>

\* what a send, collector or extraction call leaves as it is
cfgVars == <<settings, environ, secret, sinkUp, args, top, resolverVars, catalogVars>>

\* the threads that may run a secret lookup
Threads == {1, 2}

\* a thread that runs no lookup; "off" never starts one
IdleThread == [pc |-> "idle"]
OffThread == [pc |-> "off"]

\* aws_secrets right after import, no lookup made
ResolverIdle ==
    /\ boto3 = TRUE
    /\ lastError = ""
    /\ cache = << >>
    /\ storeCalls = 0
    /\ thr = [t \in Threads |-> OffThread]
    /\ lookupLog = << >>

\* status_code None
NoStatus == 0

NoLast == [status |-> NoStatus, err |-> ""]

\* the locals and traces before the call under study starts
FreshCall ==
    /\ subject = << >>
    /\ recipients = << >>
    /\ providers = << >>
    /\ pi = 0
    /\ cands = << >>
    /\ ci = 0
    /\ last = NoLast
    /\ invoked = << >>
    /\ results = << >>
    /\ http = << >>
    /\ smtpNet = << >>
    /\ lookups = 0
    /\ logCalls = << >>
    /\ emailLog = << >>
    /\ ret = "none"
    /\ out = << >>

\* cache.get answers None: no entry, or one whose timeout has passed
Absent == [kind |-> "absent", text |-> << >>, timeout |-> 0]

\* line 13, and the key an earlier version of the code used (line 12)
_CATALOG_CACHE_KEY == "clinic_catalog_json_v3"
StaleKey == "clinic_catalog_json_v2"
CatalogCacheKeys == {_CATALOG_CACHE_KEY, StaleKey}

\* CATALOG_CACHE_SECONDS is not set
SecondsUnset == [set |-> FALSE, val |-> 0]

\* no call of get_catalog_json_cached running, none made
NoCatalogCall ==
    [pc |-> "idle", force |-> FALSE, before |-> Absent, built |-> FALSE,
     wrote |-> FALSE, data |-> << >>, ret |-> << >>, stored |-> Absent,
     n |-> 0, done |-> 0]

NoRebuild == [some |-> FALSE, text |-> << >>]

\* sharing.services right after import, with an empty cache and database
CatalogIdle ==
    /\ catSeconds = SecondsUnset
    /\ db = << >>
    /\ catalogCache = [k \in CatalogCacheKeys |-> Absent]
    /\ cat = NoCatalogCall
    /\ rebuilt = NoRebuild

Fresh == FreshCall /\ ResolverIdle /\ CatalogIdle

(* --------------------------- _log_email_attempt ------------------------ *)
Missing == <<"(missing)">>

Row(to_email, subj, provider, res) ==
    [to_email |-> to_email, subject |-> subj, provider |-> provider,
     success |-> res.ok, status_code |-> res.status,
     response_body |-> res.diag, error |-> res.err]

\* lines 495-504 with a mutation: only the first recipient is logged
LogRowsFirstOnly(recips, subj, provider, res) ==
    IF recips = << >> THEN << >>
    ELSE << Row(recips[1], subj, provider, res) >>

\* the rows of the loop of lines 495-504, one per recipient
LogRows(recips, subj, provider, res) ==
    [i \in 1..Len(recips) |-> Row(recips[i], subj, provider, res)]

InternalFailure ==
    [ok |-> FALSE, status |-> NoStatus, diag |-> << >>,
     err |-> "Missing subject and/or recipients"]

\* lines 462-471 with a mutation: for r in recipients, without the or [""]
InternalRowsNoPlaceholder(recips, subj) ==
    [i \in 1..Len(recips) |->
        Row(recips[i], IF subj = << >> THEN Missing ELSE subj,
            "internal", InternalFailure)]

\* lines 462-471 with a mutation: one row whatever the recipients
InternalRowsSingle(recips, subj) ==
    << Row(IF recips = << >> THEN Missing ELSE recips[1],
           IF subj = << >> THEN Missing ELSE subj, "internal", InternalFailure) >>

\* the rows of lines 462-471: for r in recipients or [""]
InternalRows(recips, subj) ==
    LET rs == IF recips = << >> THEN << << >> >> ELSE recips
    IN  [i \in 1..Len(rs) |->
            Row(IF rs[i] = << >> THEN Missing ELSE rs[i],
                IF subj = << >> THEN Missing ELSE subj,
                "internal", InternalFailure)]

\* EmailLog.objects.create: the rows are stored unless the sink fails, which
\* _log_email_attempt swallows (lines 226-245)
Stored(rows) == IF sinkUp THEN rows ELSE << >>

(* ------------------ send_email_via_sendgrid: normalisation ------------- *)
\* list(dict.fromkeys(xs)) with a mutation: the last occurrence is kept
RECURSIVE DedupKeepLast(_)
DedupKeepLast(xs) ==
    IF xs = << >> THEN << >>
    ELSE IF \E j \in 2..Len(xs) : xs[j] = xs[1]
         THEN DedupKeepLast(Tail(xs))
         ELSE <<xs[1]>> \o DedupKeepLast(Tail(xs))

\* [str(e).strip() for e in to_emails if e and str(e).strip()]
RECURSIVE StripDropEmpty(_)
StripDropEmpty(xs) ==
    IF xs = << >> THEN << >>
    ELSE IF Strip(Head(xs)) = << >> THEN StripDropEmpty(Tail(xs))
         ELSE <<Strip(Head(xs))>> \o StripDropEmpty(Tail(xs))

\* list(dict.fromkeys(xs)): first occurrences, in order
RECURSIVE DictFromKeys(_, _)
DictFromKeys(xs, acc) ==
    IF xs = << >> THEN acc
    ELSE IF \E j \in 1..Len(acc) : acc[j] = Head(xs)
         THEN DictFromKeys(Tail(xs), acc)
         ELSE DictFromKeys(Tail(xs), Append(acc, Head(xs)))

NormalizeKeepLast(to_emails) == DedupKeepLast(StripDropEmpty(to_emails))

\* lines 458-459
NormalizeRecipients(to_emails) == DictFromKeys(StripDropEmpty(to_emails), << >>)

(* ------------------------ send_email_via_sendgrid ---------------------- *)
\* lines 457-459
SendCall ==
    /\ top = "send" /\ pc = "call"
    /\ subject' = Strip(args.subject)
    /\ recipients' = NormalizeRecipients(args.to_emails)
    /\ pc' = "validate"
    /\ UNCHANGED << cfgVars, providers, pi, cands, ci, last, invoked, results,
                    http, smtpNet, lookups, logCalls, emailLog, ret, out >>

\* lines 461-472
SendInvalid ==
    /\ top = "send" /\ pc = "validate"
    /\ subject = << >> \/ recipients = << >>
    /\ logCalls' = logCalls \o InternalRows(recipients, subject)
    /\ emailLog' = emailLog \o Stored(InternalRows(recipients, subject))
    /\ ret' = "False"
    /\ pc' = "done"
    /\ UNCHANGED << cfgVars, subject, recipients, providers, pi, cands, ci,
                    last, invoked, results, http, smtpNet, lookups, out >>

\* lines 474-477
SendResolve ==
    /\ top = "send" /\ pc = "validate"
    /\ subject # << >> /\ recipients # << >>
    /\ providers' = ProvidersFor(_get_backend_mode(settings, secret, environ))
    /\ lookups' = IF ModeNeedsCollector(settings) THEN lookups + 1 ELSE lookups
    /\ pi' = 1
    /\ pc' = "transport"
    /\ UNCHANGED << cfgVars, subject, recipients, cands, ci, last, invoked,
                    results, http, smtpNet, logCalls, emailLog, ret, out >>

\* lines 506-509 with a mutation: a success does not end the loop
AfterLogNoEarlyReturn(ok, i) ==
    IF i >= Len(providers)
    THEN [ret |-> IF ok THEN "True" ELSE "False", pc |-> "done", pi |-> i]
    ELSE [ret |-> "none", pc |-> "transport", pi |-> i + 1]

\* lines 506-509 with a mutation: a failed log write ends the call
AfterLogSinkAborts(ok, i) ==
    IF ~sinkUp THEN [ret |-> "False", pc |-> "done", pi |-> i]
    ELSE IF ok THEN [ret |-> "True", pc |-> "done", pi |-> i]
    ELSE IF i >= Len(providers) THEN [ret |-> "False", pc |-> "done", pi |-> i]
    ELSE [ret |-> "none", pc |-> "transport", pi |-> i + 1]

\* lines 506-509: return True on success, else the next provider, else False
AfterLog(ok, i) ==
    IF ok THEN [ret |-> "True", pc |-> "done", pi |-> i]
    ELSE IF i >= Len(providers) THEN [ret |-> "False", pc |-> "done", pi |-> i]
    ELSE [ret |-> "none", pc |-> "transport", pi |-> i + 1]

\* lines 495-509: the rest of the loop body once the transport has returned
SendLog ==
    /\ top = "send" /\ pc = "log"
    /\ \E rows \in {LogRows(recipients, subject, providers[pi], results[Len(results)])} :
       \E nxt \in {AfterLog(results[Len(results)].ok, pi)} :
           /\ logCalls' = logCalls \o rows
           /\ emailLog' = emailLog \o Stored(rows)
           /\ ret' = nxt.ret
           /\ pc' = nxt.pc
           /\ pi' = nxt.pi
    /\ UNCHANGED << cfgVars, subject, recipients, providers, cands, ci, last,
                    invoked, results, http, smtpNet, lookups, out >>

\* where a transport returns to
AfterTransport == IF top = "send" THEN "log" ELSE "done"

\* the provider the running call dispatches to (lines 480-493)
Dispatch(p) ==
    /\ pc = "transport"
    /\ \/ top = "send" /\ providers[pi] = p
       \/ top = p

\* the arguments a transport is called with
TransportArgs ==
    IF top = "send" THEN [subject |-> subject, to_emails |-> recipients]
    ELSE [subject |-> args.subject, to_emails |-> args.to_emails]

(* ------------------------- _send_via_sendgrid_api ---------------------- *)
NoCandidatesError == "No SendGrid API key candidates found"

CandidateList(cs) == [i \in 1..Len(cs) |-> [source |-> cs[i].source, fp |-> _fingerprint(cs[i].key)]]

\* diag_base (lines 257-265)
DiagBase(cs, sec) ==
    [provider |-> "sendgrid", aws_secrets |-> AwsDiag(sec),
     candidates |-> CandidateList(cs)]

\* diag of lines 302-310, for the candidate of the current iteration
ApiResponseDiag(cs, sec, cand, status, en) ==
    [selected_source |-> cand.source,
     sendgrid_api_key_fp |-> _fingerprint(cand.key),
     sendgrid_api_key_tail |-> CandTail(cand.key, en),
     status_code |-> status] @@ DiagBase(cs, sec)

\* diag of lines 350-351
ApiFailureDiag(cs, sec, l) ==
    [selected_source |-> "None", last_status |-> l.status,
     last_error |-> l.err] @@ DiagBase(cs, sec)

\* lines 350-355 reached with no iteration of the loop, the result a missing
\* check of line 267 would give
ApiNoCandidatesFallThrough(cs, sec) ==
    [ok |-> FALSE, status |-> NoStatus,
     diag |-> ApiFailureDiag(cs, sec, NoLast),
     err |-> "SendGrid API send failed"]

\* lines 267-268
ApiNoCandidates(cs, sec) ==
    [ok |-> FALSE, status |-> NoStatus,
     diag |-> DiagBase(cs, sec),
     err |-> NoCandidatesError]

\* lines 255-268
ApiBegin ==
    /\ Dispatch("sendgrid")
    /\ \E cs \in {_iter_sendgrid_api_key_candidates(secret, settings, environ)} :
           /\ cands' = cs
           /\ lookups' = lookups + 1
           /\ invoked' = Append(invoked, [provider |-> "sendgrid"] @@ TransportArgs)
           /\ last' = NoLast
           /\ IF cs = << >>
              THEN /\ results' = Append(results, ApiNoCandidates(cs, secret))
                   /\ pc' = AfterTransport
                   /\ ci' = 0
              ELSE /\ results' = results
                   /\ pc' = "api_try"
                   /\ ci' = 1
    /\ UNCHANGED << cfgVars, subject, recipients, providers, pi, http, smtpNet,
                    logCalls, emailLog, ret, out >>

\* what urlopen can do: return a response, or raise
HttpResponses ==
    [kind : {"return"}, status : {200, 202, 401, 403, 500}]
    \cup [kind : {"HTTPError"}, status : {401, 403, 500}]
    \cup [kind : {"URLError", "Exception"}, status : {NoStatus}]

\* ok of line 300
IsOk(resp) == resp.kind = "return" /\ 200 <= resp.status /\ resp.status < 300

\* status in (401, 403), lines 323 and 338
IsRejected(resp) ==
    resp.kind \in {"return", "HTTPError"} /\ resp.status \in {401, 403}

StatusText(n) ==
    CASE n = 200 -> "200" [] n = 202 -> "202" [] n = 401 -> "401"
      [] n = 403 -> "403" [] n = 500 -> "500" [] OTHER -> "None"

\* last_err_text of lines 320, 336, 343, 347
ErrText(resp) ==
    CASE resp.kind = "return" -> <<"HTTP", StatusText(resp.status)>>
      [] resp.kind = "HTTPError" -> <<"HTTPError", StatusText(resp.status)>>
      [] resp.kind = "URLError" -> <<"URLError">>
      [] OTHER -> <<"Exception">>

\* what the loop of line 287 does after a response that is not a success,
\* with a mutation: every failure moves on to the next candidate
ApiContinueAlways(resp, i, n) == i < n

\* whether the loop of line 287 goes on to another candidate after a response
\* that is not a success (continue at 324/339, break otherwise)
ApiContinue(resp, i, n) == IsRejected(resp) /\ i < n

\* lines 350-355
ApiFailure(cs, sec, l) ==
    [ok |-> FALSE, status |-> l.status,
     diag |-> ApiFailureDiag(cs, sec, l),
     err |-> IF l.err = "" THEN "SendGrid API send failed" ELSE l.err]

\* one iteration of the loop of lines 287-348: one POST and its handling
ApiTry ==
    /\ pc = "api_try"
    /\ \E resp \in HttpResponses :
        \E cand \in {cands[ci]} :
        \E l \in {[status |-> resp.status, err |-> ErrText(resp)]} :
            /\ http' = Append(http, [source |-> cand.source, key |-> cand.key, resp |-> resp])
            /\ IF IsOk(resp)
               THEN /\ results' = Append(results,
                           [ok |-> TRUE, status |-> resp.status,
                            diag |-> ApiResponseDiag(cands, secret, cand,
                                                     resp.status, environ),
                            err |-> ""])
                    /\ pc' = AfterTransport
                    /\ UNCHANGED <<ci, last>>
               ELSE /\ last' = l
                    /\ IF ApiContinue(resp, ci, Len(cands))
                       THEN /\ ci' = ci + 1
                            /\ pc' = "api_try"
                            /\ results' = results
                       ELSE /\ ci' = ci
                            /\ pc' = AfterTransport
                            /\ results' = Append(results, ApiFailure(cands, secret, l))
    /\ UNCHANGED << cfgVars, subject, recipients, providers, pi, cands, invoked,
                    smtpNet, lookups, logCalls, emailLog, ret, out >>

(* ----------------------------- _send_via_smtp -------------------------- *)
\* EmailMessage refuses a header value with a line break (lines 393-396)
HeaderRaises(a) ==
    \/ \E i \in 1..Len(a.subject) : a.subject[i] = NL
    \/ \E j \in 1..Len(a.to_emails) :
          \E i \in 1..Len(a.to_emails[j]) : a.to_emails[j][i] = NL

\* diag of lines 382-390
SmtpNoPasswordDiag(sec) == [provider |-> "smtp", aws_secrets |-> AwsDiag(sec)]

\* diag of lines 437-447
SmtpDiag(sec, pw_src) ==
    [provider |-> "smtp", aws_secrets |-> AwsDiag(sec),
     smtp_password_source |-> pw_src]

\* diag of lines 423-434
SmtpSuccessDiag(sec, pw) ==
    [smtp_password_tail |-> _redacted_tail(pw.pw, 4)] @@ SmtpDiag(sec, pw.src)

\* lines 375-379 with a mutation: no candidate stands in for the password
SmtpPasswordNoFallback(st, cs) ==
    [pw |-> _sanitize_secret(st.EMAIL_HOST_PASSWORD), src |-> SrcSettingsPw]

\* lines 375-379: pw and pw_src
SmtpPassword(st, cs) ==
    IF _sanitize_secret(st.EMAIL_HOST_PASSWORD) = << >> /\ cs # << >>
    THEN [pw |-> cs[1].key, src |-> cs[1].source]
    ELSE [pw |-> _sanitize_secret(st.EMAIL_HOST_PASSWORD), src |-> SrcSettingsPw]

\* lines 365-397: settings, collector, probe, password, message
SmtpBegin ==
    /\ Dispatch("smtp")
    /\ \E cs \in {_iter_sendgrid_api_key_candidates(secret, settings, environ)} :
       \E pw \in {SmtpPassword(settings, cs)} :
           /\ cands' = cs
           /\ lookups' = lookups + 1
           /\ smtpNet' = Append(smtpNet, "probe")
           /\ invoked' = Append(invoked, [provider |-> "smtp"] @@ TransportArgs)
           /\ IF pw.pw = << >>
              THEN /\ results' = Append(results,
                          [ok |-> FALSE, status |-> NoStatus,
                           diag |-> SmtpNoPasswordDiag(secret),
                           err |-> "No SMTP password available"])
                   /\ pc' = AfterTransport
                   /\ ret' = ret
              ELSE IF HeaderRaises(TransportArgs)
              THEN /\ results' = results
                   /\ pc' = "done"
                   /\ ret' = "raised"
              ELSE /\ results' = results
                   /\ pc' = "smtp_session"
                   /\ ret' = ret
    /\ UNCHANGED << cfgVars, subject, recipients, providers, pi, ci, last, http,
                    logCalls, emailLog, out >>

\* how the SMTP session of lines 399-421 ends: "ok", or the exception raised
SmtpOutcomes == {"ok", "ConnectionRefusedError", "SMTPAuthenticationError",
                 "SMTPServerDisconnected"}

\* lines 399-448
SmtpSession ==
    /\ pc = "smtp_session"
    /\ \E o \in SmtpOutcomes :
        \E pw \in {SmtpPassword(settings, cands)} :
            /\ smtpNet' = Append(smtpNet, o)
            /\ results' = Append(results,
                   [ok |-> o = "ok",
                    status |-> IF o = "ok" THEN 250 ELSE NoStatus,
                    diag |-> IF o = "ok" THEN SmtpSuccessDiag(secret, pw)
                             ELSE SmtpDiag(secret, pw.src),
                    err |-> IF o = "ok" THEN "" ELSE o])
            /\ pc' = AfterTransport
    /\ UNCHANGED << cfgVars, subject, recipients, providers, pi, cands, ci, last,
                    invoked, http, lookups, logCalls, emailLog, ret, out >>

(* --------------- direct calls of the collector and extraction ---------- *)
\* one run of _iter_sendgrid_api_key_candidates (lines 144-187)
Collect ==
    /\ top = "collect" /\ pc = "call"
    /\ out' = _iter_sendgrid_api_key_candidates(secret, settings, environ)
    /\ lookups' = lookups + 1
    /\ pc' = "done"
    /\ UNCHANGED << cfgVars, subject, recipients, providers, pi, cands, ci, last,
                    invoked, results, http, smtpNet, logCalls, emailLog, ret >>

\* json.dumps of a str: the quote is escaped
Escape(v) == [i \in 1..Len(v) |-> IF v[i] = DQ THEN ESCQ ELSE v[i]]

\* the text of one member, "name": value
MemberText(f, sep) ==
    <<DQ, f.name, DQ, COLON>> \o sep
    \o (IF f.val.isStr THEN <<DQ>> \o Escape(f.val.s) \o <<DQ>> ELSE <<NUM>>)

RECURSIVE MembersText(_, _)
MembersText(fs, sep) ==
    IF fs = << >> THEN << >>
    ELSE IF Len(fs) = 1 THEN MemberText(fs[1], sep)
    ELSE MemberText(fs[1], sep) \o <<COMMA>> \o sep \o MembersText(Tail(fs), sep)

\* the secret payload as stored: a JSON object text, compact or with
\* whitespace after separators and around the object
PayloadText(a) ==
    IF a.spaced
    THEN <<SP, LB>> \o MembersText(a.fields, <<SP>>) \o <<RB, NL>>
    ELSE <<LB>> \o MembersText(a.fields, << >>) \o <<RB>>

\* one application of _extract_sendgrid_key (lines 42-76) to a payload
Extract ==
    /\ top = "extract" /\ pc = "call"
    /\ out' = _extract_sendgrid_key(PayloadText(args))
    /\ pc' = "done"
    /\ UNCHANGED << cfgVars, subject, recipients, providers, pi, cands, ci, last,
                    invoked, results, http, smtpNet, lookups, logCalls,
                    emailLog, ret >>

(* --------------------- peds_edu/aws_secrets.py ------------------------- *)
\* the absent value None, which no text equals
None == <<"<None>">>

\* the (secret_name, region_name) pairs looked up
LookupKeys ==
    { <<"SendGrid_API", "ap-south-1">>, <<"SendGrid_API", "us-east-1">>,
      <<"Other_Secret", "ap-south-1">> }

\* what client.get_secret_value can do (lines 55-58): raise, or answer with a
\* SecretString, with a SecretBinary that decodes or does not, or with neither
StoreOutcomes ==
    [kind : {"raise"}, text : {<< >>},
     err : {"NoCredentialsError", "EndpointConnectionError", "ClientError"}]
    \cup [kind : {"SecretString"}, text : {<<SP, "x", NL>>}, err : {""}]
    \cup [kind : {"SecretBinary", "SecretBinaryBad", "Empty"},
          text : {<<"y", SP>>}, err : {""}]

\* the failure or success the body of get_secret_string meets
ModeOf(lib, o) == IF lib THEN o.kind ELSE "boto3_unavailable"

\* lines 51-83 with a mutation: a decode failure assigns no error
BodyResultSilentDecode(lib, o) ==
    IF ~lib THEN [val |-> None, err |-> "boto3_unavailable"]
    ELSE CASE o.kind = "raise" -> [val |-> None, err |-> o.err]
           [] o.kind \in {"SecretString", "SecretBinary"} ->
                 [val |-> Strip(o.text), err |-> ""]
           [] OTHER -> [val |-> None, err |-> ""]

\* lines 51-83: the value get_secret_string returns and the text it assigns
\* to _LAST_ERROR after the reset of line 49 ("" when it assigns none)
BodyResult(lib, o) ==
    IF ~lib THEN [val |-> None, err |-> "boto3_unavailable"]
    ELSE CASE o.kind = "raise" -> [val |-> None, err |-> o.err]
           [] o.kind \in {"SecretString", "SecretBinary"} ->
                 [val |-> Strip(o.text), err |-> ""]
           [] o.kind = "SecretBinaryBad" -> [val |-> None, err |-> "decode_error"]
           [] OTHER -> [val |-> None, err |-> ""]

\* maxsize of the lru_cache (line 35)
CacheMaxSize == 32

\* position of key in the cache, 0 when it is not there
CacheIndex(c, key) ==
    IF \E i \in 1..Len(c) : c[i].key = key
    THEN CHOOSE i \in 1..Len(c) : c[i].key = key
    ELSE 0

\* a hit makes the entry the most recently used
CacheTouch(c, i) == SubSeq(c, 1, i - 1) \o SubSeq(c, i + 1, Len(c)) \o <<c[i]>>

\* a miss stores the result; a full cache drops its least recently used entry
CacheStore(c, key, val) ==
    IF Len(c) >= CacheMaxSize
    THEN Append(Tail(c), [key |-> key, val |-> val])
    ELSE Append(c, [key |-> key, val |-> val])

\* line 113 with a mutation: no __wrapped__, so line 117 calls the cached function
HasWrappedMissing == FALSE

\* getattr(get_secret_string, "__wrapped__", None) is not None (line 113):
\* functools.lru_cache sets it
HasWrapped == TRUE

\* a lookup may start while the run has lookups left
CanStart ==
    Len(lookupLog) + Cardinality({t \in Threads : thr[t].pc \notin {"idle", "off"}})
        < MaxLookups

\* the locals of a lookup that is about to run the body
Started(via, key, direct) ==
    [pc |-> "reset", via |-> via, key |-> key, direct |-> direct, ran |-> FALSE,
     val |-> None, own |-> "", mode |-> "", text |-> << >>]

\* the locals of a lookup the cache has answered
Answered(via, key, val) ==
    [pc |-> "returned", via |-> via, key |-> key, direct |-> FALSE, ran |-> FALSE,
     val |-> val, own |-> "", mode |-> "hit", text |-> << >>]

\* what a send, collector or extraction call works on, which a lookup leaves
sendVars ==
    << settings, environ, secret, sinkUp, args, top, pc, subject, recipients,
       providers, pi, cands, ci, last, invoked, results, http, smtpNet,
       lookups, logCalls, emailLog, ret, out, catalogVars >>

\* a call of a function that goes through the lru_cache wrapper (line 35):
\* a hit returns the stored value, a miss runs the body
ThroughCache(t, via, key, i) ==
    IF i # 0
    THEN /\ cache' = CacheTouch(cache, i)
         /\ thr' = [thr EXCEPT ![t] = Answered(via, key, cache[i].val)]
    ELSE /\ cache' = cache
         /\ thr' = [thr EXCEPT ![t] = Started(via, key, FALSE)]

\* get_secret_string(name, region_name=region), as settings.py line 99 calls it
GetSecretString(t) ==
    /\ top = "resolver" /\ thr[t].pc = "idle" /\ CanStart
    /\ \E key \in LookupKeys : ThroughCache(t, "cached", key, CacheIndex(cache, key))
    /\ UNCHANGED << sendVars, boto3, lastError, storeCalls, lookupLog >>

\* _get_secret_string_uncached (lines 111-117): the undecorated function
\* when there is one, else the cached one
GetSecretStringUncached(t) ==
    /\ top = "resolver" /\ thr[t].pc = "idle" /\ CanStart
    /\ \E key \in LookupKeys :
          IF HasWrapped
          THEN /\ thr' = [thr EXCEPT ![t] = Started("uncached", key, TRUE)]
               /\ cache' = cache
          ELSE ThroughCache(t, "uncached", key, CacheIndex(cache, key))
    /\ UNCHANGED << sendVars, boto3, lastError, storeCalls, lookupLog >>

\* lines 48-49 with a mutation: the body does not clear _LAST_ERROR
BodyResetKeeps(t) ==
    /\ thr[t].pc = "reset"
    /\ lastError' = lastError
    /\ thr' = [thr EXCEPT ![t].pc = "fetch"]
    /\ UNCHANGED << sendVars, boto3, cache, storeCalls, lookupLog >>

\* lines 48-49
BodyReset(t) ==
    /\ thr[t].pc = "reset"
    /\ lastError' = ""
    /\ thr' = [thr EXCEPT ![t].pc = "fetch"]
    /\ UNCHANGED << sendVars, boto3, cache, storeCalls, lookupLog >>

\* lines 51-83: the library check, the call of the store and the return
BodyFetch(t) ==
    /\ thr[t].pc = "fetch"
    /\ \E o \in StoreOutcomes :
       \E r \in {BodyResult(boto3, o)} :
           /\ lastError' = IF r.err # "" THEN r.err ELSE lastError
           /\ thr' = [thr EXCEPT ![t] =
                         [@ EXCEPT !.pc = "returned", !.ran = TRUE, !.val = r.val,
                                   !.own = r.err, !.mode = ModeOf(boto3, o),
                                   !.text = o.text]]
    /\ storeCalls' = IF boto3 THEN storeCalls + 1 ELSE storeCalls
    /\ UNCHANGED << sendVars, boto3, cache, lookupLog >>

\* what the caller of the lookup gets: the value as it is from
\* get_secret_string, and from _get_secret_string_uncached the pair of
\* lines 119-120, ((val or "").strip(), err or None) with err read from
\* get_last_error()
Returns(l, lastErr) ==
    [thread |-> 0, via |-> l.via, key |-> l.key, ran |-> l.ran, mode |-> l.mode,
     text |-> l.text, own |-> l.own,
     val |-> IF l.via = "cached" THEN l.val
             ELSE IF l.val = None THEN << >> ELSE Strip(l.val),
     err |-> IF l.via = "cached" THEN "" ELSE lastErr]

\* the body has returned: the wrapper stores a computed result (line 35),
\* _get_secret_string_uncached reads the last error (line 119)
AfterBody(t) ==
    /\ thr[t].pc = "returned"
    /\ cache' = IF thr[t].ran /\ ~thr[t].direct
                THEN CacheStore(cache, thr[t].key, thr[t].val)
                ELSE cache
    /\ lookupLog' = Append(lookupLog, [Returns(thr[t], lastError) EXCEPT !.thread = t])
    /\ thr' = [thr EXCEPT ![t] = IdleThread]
    /\ UNCHANGED << sendVars, boto3, lastError, storeCalls >>

(* ------------------------------ inputs --------------------------------- *)
\* the lists over S of length at most n
RECURSIVE ListsUpTo(_, _)
ListsUpTo(S, n) ==
    IF n = 0 THEN { << >> }
    ELSE {l \in ListsUpTo(S, n - 1) : TRUE}
         \cup {Append(l, x) : l \in ListsUpTo(S, n - 1), x \in S}

KeyX == <<"x">>
KeyXY == <<"x", "y">>
KeyYX == <<"y", "x">>
KeyZ == <<"z">>
KeySG == <<"S", "G">>
KeyXYZX == <<"x", "y", "z", "x">>

Subjects == { <<SP>>, <<SP, "s">>, <<"s", NL, "t">> }
Emails == { <<SP>>, <<"a">>, <<"b", SP>> }

ModeValues == { << >>, <<SP, "SMTP">>, <<"SendGrid">>, <<"console">>, <<"api">> }

SecretFails == [val |-> << >>, err |-> "ClientError"]
SecretJsonX == [val |-> <<LB, DQ, "api_key", DQ, COLON, DQ, "x", DQ, RB>>, err |-> ""]
SecretBearerX == [val |-> <<"B", "e", "a", "r", "e", "r", SP, "x", NL>>, err |-> ""]

\* SENDGRID_KEY_TAIL_CHARS as the environment can hold it: unset, or a text
TailUnset == << >>

NoEnviron ==
    [SENDGRID_API_KEY |-> << >>, EMAIL_HOST_PASSWORD |-> << >>,
     SENDGRID_KEY_TAIL_CHARS |-> TailUnset]

(* ------------------------ sharing/services.py -------------------------- *)
\* the default of line 14
DefaultCacheSeconds == 3600

\* line 14: int(getattr(settings, "CATALOG_CACHE_SECONDS", 3600) or 3600)
_CATALOG_CACHE_SECONDS(setting) ==
    IF setting.set /\ setting.val # 0 THEN setting.val ELSE DefaultCacheSeconds

\* the "videos" member of the payload (lines 58-90): one item per row
RECURSIVE VideosText(_)
VideosText(videos) ==
    IF videos = << >> THEN << >>
    ELSE IF Len(videos) = 1 THEN <<DQ, Head(videos), DQ>>
    ELSE <<DQ, Head(videos), DQ, COMMA>> \o VideosText(Tail(videos))

\* json.dumps(_build_catalog_payload(), ensure_ascii=False) (lines 92-96,
\* 104-105): an object text with the three members of the payload
DumpsCatalog(videos) ==
    <<LB, "clusters", COMMA, "videos", COLON>> \o VideosText(videos)
        \o <<COMMA, "message_prefixes", RB>>

\* a cache entry that holds a str
StrEntry(text, timeout) == [kind |-> "str", text |-> text, timeout |-> timeout]

\* a cache entry that holds something that is not a str
OtherEntry == [kind |-> "other", text |-> << >>, timeout |-> DefaultCacheSeconds]

\* lines 100-102 with a mutation: a blank str is returned as well
CachedUsableAnyString(force, e) == ~force /\ e.kind = "str"

\* lines 100-102: not force_refresh and isinstance(cached, str) and cached.strip()
CachedUsable(force, e) == ~force /\ e.kind = "str" /\ Strip(e.text) # << >>

\* what a call of get_catalog_json_cached leaves as it is
mailVars ==
    << settings, environ, secret, sinkUp, args, top, pc, subject, recipients,
       providers, pi, cands, ci, last, invoked, results, http, smtpNet,
       lookups, logCalls, emailLog, ret, out >>

\* the locals of a call that has just started
CatalogCall(force, e) ==
    [NoCatalogCall EXCEPT !.force = force, !.before = e,
                          !.n = cat.n + 1, !.done = cat.done]

\* lines 99-103: the entry is returned, or the payload is to be rebuilt
GetCatalogJsonCached ==
    /\ top = "catalog" /\ cat.pc = "idle" /\ cat.n < MaxCatalogCalls
    /\ \E force \in BOOLEAN : \E e \in {catalogCache[_CATALOG_CACHE_KEY]} :
          cat' = IF CachedUsable(force, e)
                 THEN [CatalogCall(force, e) EXCEPT !.pc = "returned", !.ret = e.text,
                                                    !.done = cat.done + 1]
                 ELSE [CatalogCall(force, e) EXCEPT !.pc = "build"]
    /\ UNCHANGED << mailVars, resolverVars, catSeconds, db, catalogCache, rebuilt >>

\* lines 105-106: the payload is built from the database and serialised, or
\* a query raises and the call ends with the exception
BuildCatalogPayload ==
    /\ cat.pc = "build"
    /\ \/ /\ cat' = [cat EXCEPT !.pc = "store", !.built = TRUE,
                                !.data = DumpsCatalog(db)]
          /\ rebuilt' = [some |-> TRUE, text |-> DumpsCatalog(db)]
       \/ /\ cat' = [cat EXCEPT !.pc = "raised"]
          /\ rebuilt' = rebuilt
    /\ UNCHANGED << mailVars, resolverVars, catSeconds, db, catalogCache >>

\* lines 107-108: cache.set and the return of the string that was set
CatalogCacheSet ==
    /\ cat.pc = "store"
    /\ \E e \in {StrEntry(cat.data, _CATALOG_CACHE_SECONDS(catSeconds))} :
          /\ catalogCache' = [catalogCache EXCEPT ![_CATALOG_CACHE_KEY] = e]
          /\ cat' = [cat EXCEPT !.pc = "returned", !.wrote = TRUE, !.stored = e,
                                !.ret = cat.data, !.done = cat.done + 1]
    /\ UNCHANGED << mailVars, resolverVars, catSeconds, db, rebuilt >>

\* the caller has the result, or the exception
CatalogReturn ==
    /\ cat.pc \in {"returned", "raised"}
    /\ cat' = [NoCatalogCall EXCEPT !.n = cat.n, !.done = cat.done]
    /\ UNCHANGED << mailVars, resolverVars, catSeconds, db, catalogCache, rebuilt >>

\* the rows of the database, in query order (lines 54-58)
VideoCodes == {"v1", "v2"}

\* a publisher changes the catalog
DbChange ==
    /\ top = "catalog"
    /\ \E d \in ListsUpTo(VideoCodes, MaxVideos) : d # db /\ db' = d
    /\ UNCHANGED << mailVars, resolverVars, catSeconds, catalogCache, cat, rebuilt >>

\* an entry's timeout passes, or the backend drops it
CacheExpire ==
    /\ top = "catalog"
    /\ \E k \in CatalogCacheKeys :
          /\ catalogCache[k] # Absent
          /\ catalogCache' = [catalogCache EXCEPT ![k] = Absent]
    /\ UNCHANGED << mailVars, resolverVars, catSeconds, db, cat, rebuilt >>

\* the orchestrator, called with any subject and short recipient lists
InitSend ==
    /\ settings \in [SENDGRID_API_KEY : {<< >>, KeyXY},
                     EMAIL_HOST_PASSWORD : {<< >>, <<DQ, "x", DQ>>},
                     EMAIL_BACKEND_MODE : ModeValues]
    /\ environ = NoEnviron
    /\ secret \in {SecretFails, SecretJsonX}
    /\ sinkUp \in BOOLEAN
    /\ args \in [subject : Subjects, to_emails : ListsUpTo(Emails, MaxRecipients)]
    /\ top = "send"
    /\ pc = "call"
    /\ Fresh

Init == InitSend

Next ==
    \/ SendCall
    \/ SendInvalid
    \/ SendResolve
    \/ ApiBegin
    \/ ApiTry
    \/ SmtpBegin
    \/ SmtpSession
    \/ SendLog

Spec == Init /\ [][Next]_vars

\* the orchestrator, called with longer lists that repeat and pad recipients
EmailsNorm == { <<SP>>, <<"a">>, <<SP, "a", SP>>, <<"b">> }

InitNorm ==
    /\ settings \in [SENDGRID_API_KEY : {KeyXY},
                     EMAIL_HOST_PASSWORD : {<< >>},
                     EMAIL_BACKEND_MODE : {<<"smtp">>, <<"sendgrid">>}]
    /\ environ = NoEnviron
    /\ secret = SecretFails
    /\ sinkUp \in BOOLEAN
    /\ args \in [subject : {<<SP>>, <<SP, "s">>},
                 to_emails : ListsUpTo(EmailsNorm, MaxToEmails)]
    /\ top = "send"
    /\ pc = "call"
    /\ Fresh

SpecNorm == InitNorm /\ [][Next]_vars

\* the HTTP transport, called directly
InitApi ==
    /\ settings \in [SENDGRID_API_KEY : {<< >>, <<SP, "x">>, KeyXY, KeyXYZX},
                     EMAIL_HOST_PASSWORD : {<< >>, KeyYX, KeyZ},
                     EMAIL_BACKEND_MODE : {<<"sendgrid">>}]
    /\ environ \in [SENDGRID_API_KEY : {<< >>, KeySG}, EMAIL_HOST_PASSWORD : {<< >>},
                    SENDGRID_KEY_TAIL_CHARS : {TailUnset, <<"2">>}]
    /\ secret \in {SecretFails, SecretJsonX}
    /\ sinkUp = TRUE
    /\ args = [subject |-> <<"s">>, to_emails |-> << <<"a">> >>]
    /\ top = "sendgrid"
    /\ pc = "transport"
    /\ Fresh

NextApi == ApiBegin \/ ApiTry

SpecApi == InitApi /\ [][NextApi]_vars

\* the collector, called directly
\* "Bearer x" written inside quotes, and x inside two pairs of quotes
QuotedBearerX == <<DQ, "B", "e", "a", "r", "e", "r", SP, "x", DQ>>
DoublyQuotedX == <<DQ, DQ, "x", DQ, DQ>>

RawValues == { << >>, <<SP>>, KeyX, <<DQ, "x", DQ>>, <<SP, "x", "y">>, KeyYX,
               QuotedBearerX, DoublyQuotedX }

InitCollect ==
    /\ settings \in [SENDGRID_API_KEY : RawValues,
                     EMAIL_HOST_PASSWORD : RawValues,
                     EMAIL_BACKEND_MODE : {<< >>}]
    /\ environ \in [SENDGRID_API_KEY : RawValues, EMAIL_HOST_PASSWORD : RawValues,
                    SENDGRID_KEY_TAIL_CHARS : {TailUnset}]
    /\ secret \in {SecretFails, SecretJsonX, SecretBearerX,
                   [val |-> <<SP, "y", "x">>, err |-> ""]}
    /\ sinkUp = TRUE
    /\ args = << >>
    /\ top = "collect"
    /\ pc = "call"
    /\ Fresh

NextCollect == Collect

SpecCollect == InitCollect /\ [][NextCollect]_vars

\* _extract_sendgrid_key, applied to JSON payloads
FieldNames ==
    {KeyNames[i] : i \in 1..Len(KeyNames)} \cup {"API_KEY", "SENDGRID_EMAIL", "other"}

FieldValues ==
    { JsonStringOf(KeySG), JsonStringOf(<<SP, DQ, "x", DQ>>), JsonStringOf(<<SP>>),
      NonString }

Fields == [name : FieldNames, val : FieldValues]

DistinctNames(fs) == \A i, j \in 1..Len(fs) : i # j => fs[i].name # fs[j].name

Payloads ==
    {fs \in ListsUpTo(Fields, MaxFields) : fs # << >> /\ DistinctNames(fs)}

InitExtract ==
    /\ settings = [SENDGRID_API_KEY |-> << >>, EMAIL_HOST_PASSWORD |-> << >>,
                   EMAIL_BACKEND_MODE |-> << >>]
    /\ environ = NoEnviron
    /\ secret = SecretFails
    /\ sinkUp = TRUE
    /\ args \in [fields : Payloads, spaced : BOOLEAN]
    /\ top = "extract"
    /\ pc = "call"
    /\ Fresh

NextExtract == Extract

SpecExtract == InitExtract /\ [][NextExtract]_vars

\* the secret resolver, used by one thread
InitResolver ==
    /\ settings = [SENDGRID_API_KEY |-> << >>, EMAIL_HOST_PASSWORD |-> << >>,
                   EMAIL_BACKEND_MODE |-> << >>]
    /\ environ = NoEnviron
    /\ secret = SecretFails
    /\ sinkUp = TRUE
    /\ args = << >>
    /\ top = "resolver"
    /\ pc = "done"
    /\ FreshCall
    /\ CatalogIdle
    /\ boto3 \in BOOLEAN
    /\ lastError = ""
    /\ cache = << >>
    /\ storeCalls = 0
    /\ thr = [t \in Threads |-> IF t = 1 THEN IdleThread ELSE OffThread]
    /\ lookupLog = << >>

NextResolver ==
    \E t \in Threads :
        \/ GetSecretString(t)
        \/ GetSecretStringUncached(t)
        \/ BodyReset(t)
        \/ BodyFetch(t)
        \/ AfterBody(t)

SpecResolver == InitResolver /\ [][NextResolver]_vars

\* the collector's secret lookup, run by two threads at a time
InitThreads ==
    /\ settings = [SENDGRID_API_KEY |-> << >>, EMAIL_HOST_PASSWORD |-> << >>,
                   EMAIL_BACKEND_MODE |-> << >>]
    /\ environ = NoEnviron
    /\ secret = SecretFails
    /\ sinkUp = TRUE
    /\ args = << >>
    /\ top = "resolver"
    /\ pc = "done"
    /\ FreshCall
    /\ CatalogIdle
    /\ boto3 \in BOOLEAN
    /\ lastError = ""
    /\ cache = << >>
    /\ storeCalls = 0
    /\ thr = [t \in Threads |-> IdleThread]
    /\ lookupLog = << >>

NextThreads ==
    \E t \in Threads :
        \/ GetSecretStringUncached(t)
        \/ BodyReset(t)
        \/ BodyFetch(t)
        \/ AfterBody(t)

SpecThreads == InitThreads /\ [][NextThreads]_vars

\* CATALOG_CACHE_SECONDS as the settings can hold it
CatalogSecondsValues ==
    {SecondsUnset, [set |-> TRUE, val |-> 0], [set |-> TRUE, val |-> 60]}

\* what the cache can hold under the key when the process makes its first
\* call: nothing, the output of an earlier rebuild, a blank str, or a value
\* that is not a str
InitialEntries ==
    {Absent, StrEntry(<<SP>>, DefaultCacheSeconds), OtherEntry}
    \cup {StrEntry(DumpsCatalog(d), DefaultCacheSeconds) :
             d \in ListsUpTo(VideoCodes, MaxVideos)}

\* what an earlier version of the code left under its key
StaleEntry == StrEntry(<<LB, RB>>, DefaultCacheSeconds)

\* the catalog cache, called any number of times while the database changes
\* and entries expire
InitCatalog ==
    /\ settings = [SENDGRID_API_KEY |-> << >>, EMAIL_HOST_PASSWORD |-> << >>,
                   EMAIL_BACKEND_MODE |-> << >>]
    /\ environ = NoEnviron
    /\ secret = SecretFails
    /\ sinkUp = TRUE
    /\ args = << >>
    /\ top = "catalog"
    /\ pc = "done"
    /\ FreshCall
    /\ ResolverIdle
    /\ catSeconds \in CatalogSecondsValues
    /\ db \in ListsUpTo(VideoCodes, MaxVideos)
    /\ \E e \in InitialEntries : \E st \in {Absent, StaleEntry} :
          /\ catalogCache = [k \in CatalogCacheKeys |->
                                IF k = _CATALOG_CACHE_KEY THEN e ELSE st]
          /\ rebuilt = IF CachedUsable(FALSE, e)
                       THEN [some |-> TRUE, text |-> e.text] ELSE NoRebuild
    /\ cat = NoCatalogCall

NextCatalog ==
    \/ GetCatalogJsonCached
    \/ BuildCatalogPayload
    \/ CatalogCacheSet
    \/ CatalogReturn
    \/ DbChange
    \/ CacheExpire

SpecCatalog == InitCatalog /\ [][NextCatalog]_vars

(* ============================== claims ================================= *)
Range(f) == {f[i] : i \in 1..Len(f)}

Returned == ret \in {"True", "False"}

\* the request passed validation (line 461)
ValidRequest == subject # << >> /\ recipients # << >>

NoTransportWork ==
    invoked = << >> /\ results = << >> /\ http = << >> /\ smtpNet = << >> /\ lookups = 0

(* C1: the transports are invoked one at a time in the resolved priority   *)
(* order; nothing is invoked after a transport reported success, True is   *)
(* returned right after the first success, and False is returned for a     *)
(* valid request only after both transports were invoked and both failed.  *)
C1_FirstSuccessWins ==
    /\ Len(invoked) <= Len(providers)
    /\ \A i \in 1..Len(invoked) : invoked[i].provider = providers[i]
    /\ Len(results) <= Len(invoked) /\ Len(invoked) <= Len(results) + 1
    /\ \A i \in 1..Len(results) : results[i].ok => i = Len(invoked)
    /\ ret = "True" =>
          /\ results # << >> /\ Len(results) = Len(invoked)
          /\ results[Len(results)].ok
          /\ \A i \in 1..(Len(results) - 1) : ~results[i].ok
    /\ (ret = "False" /\ ValidRequest) =>
          /\ Len(invoked) = 2 /\ Len(results) = 2
          /\ invoked[1].provider # invoked[2].provider
          /\ ~results[1].ok /\ ~results[2].ok

\* the first transport succeeds and the second is never invoked
C1_Witness ==
    /\ ret = "True" /\ Len(providers) = 2
    /\ Len(invoked) = 1 /\ results[1].ok

\* the row a transport's outcome gives for one recipient
ExpectedRow(r, t) ==
    [to_email |-> r, subject |-> subject, provider |-> invoked[t].provider,
     success |-> results[t].ok, status_code |-> results[t].status,
     response_body |-> results[t].diag, error |-> results[t].err]

C3_InvalidInputShortCircuits ==
    (pc # "call" /\ ~ValidRequest) =>
        /\ NoTransportWork /\ providers = << >>
        /\ pc = "done" =>
              /\ ret = "False"
              /\ Len(logCalls) = IF recipients = << >> THEN 1 ELSE Len(recipients)
              /\ \A i \in 1..Len(logCalls) :
                    /\ logCalls[i].provider = "internal"
                    /\ ~logCalls[i].success
                    /\ logCalls[i].status_code = NoStatus
                    /\ logCalls[i].to_email =
                          IF recipients = << >> THEN Missing ELSE recipients[i]
              /\ emailLog = IF sinkUp THEN logCalls ELSE << >>

\* no recipient remains: one placeholder row
C3_Witness ==
    /\ pc = "done" /\ top = "send" /\ recipients = << >> /\ args.to_emails # << >>
    /\ sinkUp /\ Len(emailLog) = 1
    /\ emailLog[1].to_email = Missing /\ emailLog[1].provider = "internal"

\* the distinct non-empty recipients of the call, after trimming
DistinctRecipients == {Strip(e) : e \in Range(args.to_emails)} \ { << >> }

(* C4 as stated: an empty subject with a non-empty recipient list returns  *)
(* failure, writes exactly one row, of provider "internal", and makes no   *)
(* network call.                                                           *)
C4_Original ==
    (top = "send" /\ pc = "done" /\ Strip(args.subject) = << >>
        /\ args.to_emails # << >>) =>
        /\ ret = "False"
        /\ Len(logCalls) = 1
        /\ logCalls[1].provider = "internal"
        /\ NoTransportWork

(* C4, amended: an empty subject with a non-empty recipient list returns   *)
(* failure, writes one row per distinct non-empty recipient (one           *)
(* placeholder row when there is none), every row of provider "internal",  *)
(* and makes no network call.                                              *)
C4_Amended ==
    (top = "send" /\ pc = "done" /\ Strip(args.subject) = << >>
        /\ args.to_emails # << >>) =>
        /\ ret = "False"
        /\ Len(logCalls) = Max(1, Cardinality(DistinctRecipients))
        /\ \A i \in 1..Len(logCalls) : logCalls[i].provider = "internal"
        /\ DistinctRecipients # {} => {logCalls[i].to_email : i \in 1..Len(logCalls)} = DistinctRecipients
        /\ NoTransportWork

\* empty subject, two distinct recipients: two rows
C4_Witness ==
    /\ top = "send" /\ pc = "done" /\ Strip(args.subject) = << >>
    /\ Cardinality(DistinctRecipients) = 2
    /\ Len(logCalls) = 2 /\ logCalls[1].to_email # logCalls[2].to_email

\* index of the first entry of to_emails that trims to r
FirstSeen(r) ==
    CHOOSE i \in 1..Len(args.to_emails) :
        /\ Strip(args.to_emails[i]) = r
        /\ \A j \in 1..(i - 1) : Strip(args.to_emails[j]) # r

(* C5: the recipients are the entries of to_emails trimmed, without the    *)
(* empty ones and without duplicates, in first-seen order; every transport *)
(* tried is passed exactly this list, and the rows logged for it name      *)
(* exactly these recipients, each once and in this order.                  *)
C5_RecipientsNormalised ==
    (top = "send" /\ pc # "call") =>
        /\ Range(recipients) = DistinctRecipients
        /\ Len(recipients) = Cardinality(DistinctRecipients)
        /\ \A i, j \in 1..Len(recipients) :
              i < j => FirstSeen(recipients[i]) < FirstSeen(recipients[j])
        /\ \A t \in 1..Len(invoked) : invoked[t].to_emails = recipients
        /\ (Returned /\ ValidRequest) =>
              /\ Len(logCalls) = Len(recipients) * Len(invoked)
              /\ \A t \in 1..Len(invoked) : \A j \in 1..Len(recipients) :
                    logCalls[(t - 1) * Len(recipients) + j].to_email = recipients[j]

\* [a, " a ", b] is logged as a, b for each of two transports
C5_Witness ==
    /\ args.to_emails = << <<"a">>, <<SP, "a", SP>>, <<"b">> >>
    /\ Returned /\ Len(invoked) = 2
    /\ [i \in 1..Len(logCalls) |-> logCalls[i].to_email]
          = << <<"a">>, <<"b">>, <<"a">>, <<"b">> >>

\* the selector as the code reads it: trimmed, lower case
Selector == Lower(Strip(settings.EMAIL_BACKEND_MODE))

ApiFirst == <<"sendgrid", "smtp">>
SmtpFirst == <<"smtp", "sendgrid">>

(* C6: the selector decides the transport order: "smtp" gives [smtp, api], *)
(* the Web-API value (spelled "sendgrid" in the code) gives [api, smtp]    *)
(* whatever credentials exist; an unset or unrecognized selector gives     *)
(* [api, smtp] when the collector yields a candidate, else [smtp, api].    *)
C6_OrderFromSelector ==
    (top = "send" /\ pc \notin {"call", "validate"} /\ ValidRequest) =>
        /\ Selector = <<"smtp">> => providers = SmtpFirst
        /\ Selector = <<"sendgrid">> => providers = ApiFirst
        /\ Selector \notin {<<"smtp">>, <<"sendgrid">>, <<"console">>} =>
              providers =
                 IF _iter_sendgrid_api_key_candidates(secret, settings, environ) # << >>
                 THEN ApiFirst ELSE SmtpFirst

\* an unset selector and no credential anywhere: SMTP goes first
C6_Witness ==
    /\ top = "send" /\ pc = "done" /\ Returned
    /\ settings.EMAIL_BACKEND_MODE = << >>
    /\ _iter_sendgrid_api_key_candidates(secret, settings, environ) = << >>
    /\ providers = SmtpFirst /\ Len(invoked) = 2

\* a 401 or 403, returned or raised
Rejected(resp) == resp.status \in {401, 403}

Accepted(resp) == resp.kind = "return" /\ resp.status \in 200..299

(* C7: the HTTP transport posts with the candidates in priority order,     *)
(* each at most once; every response before the last was a 401 or 403; a   *)
(* 2xx response ends the loop with success under that candidate, a 401 or  *)
(* 403 of the last candidate ends it with that failure, and any other      *)
(* status or network error ends it at once with that failure.              *)
C7_CandidateRotation ==
    /\ Len(http) <= Len(cands)
    /\ \A i \in 1..Len(http) :
          http[i].key = cands[i].key /\ http[i].source = cands[i].source
    /\ \A i \in 1..(Len(http) - 1) : Rejected(http[i].resp)
    /\ (top = "sendgrid" /\ pc = "done" /\ cands # << >>) =>
          /\ http # << >> /\ Len(results) = 1
          /\ \E r \in {http[Len(http)].resp} :
                /\ results[1].ok = Accepted(r)
                /\ results[1].status = r.status
                /\ Accepted(r) => results[1].diag.selected_source = http[Len(http)].source
                /\ Rejected(r) => Len(http) = Len(cands)
                /\ ~Accepted(r) => results[1].diag.selected_source = "None"
    /\ (pc = "api_try") => (Len(http) = ci - 1 /\ ci <= Len(cands))

\* first candidate answered 403, second 202: success with the second, two calls
C7_Witness ==
    /\ top = "sendgrid" /\ pc = "done" /\ Len(http) = 2
    /\ http[1].resp.status = 403 /\ http[2].resp.status = 202
    /\ results[1].ok /\ results[1].status = 202
    /\ results[1].diag.selected_source = cands[2].source
    /\ cands[1].key # cands[2].key

\* no source holds a usable key
NoKeyAnywhere ==
    /\ Strip(secret.val) = << >>
    /\ Strip(settings.SENDGRID_API_KEY) = << >>
    /\ Strip(settings.EMAIL_HOST_PASSWORD) = << >>
    /\ Strip(environ.SENDGRID_API_KEY) = << >>
    /\ Strip(environ.EMAIL_HOST_PASSWORD) = << >>

(* C8: when the collector yields no candidate, the HTTP transport returns  *)
(* success = false with no status code and the error "No SendGrid API key  *)
(* candidates found", and makes no call to the mail API.                   *)
C8_NoCandidates ==
    /\ (top = "sendgrid" /\ pc = "done" /\ cands = << >>) =>
          /\ Len(results) = 1
          /\ ~results[1].ok
          /\ results[1].status = NoStatus
          /\ results[1].err = "No SendGrid API key candidates found"
          /\ http = << >>
    /\ (top = "sendgrid" /\ pc = "done" /\ NoKeyAnywhere) => cands = << >>

\* every source empty: the transport has returned without a call
C8_Witness ==
    /\ top = "sendgrid" /\ pc = "done" /\ NoKeyAnywhere
    /\ lookups = 1 /\ http = << >> /\ ~results[1].ok

\* rank of a source tag in the fixed priority order
Rank(src) == CHOOSE r \in 1..Len(SourceOrder) : SourceOrder[r] = src

\* the normalised key each source yields, by rank (the secret-store value is
\* extracted at line 165 and again at line 178)
Produced ==
    << _extract_sendgrid_key(_extract_sendgrid_key(SecretRaw(secret))),
       _extract_sendgrid_key(settings.SENDGRID_API_KEY),
       _extract_sendgrid_key(settings.EMAIL_HOST_PASSWORD),
       _extract_sendgrid_key(environ.SENDGRID_API_KEY),
       _extract_sendgrid_key(environ.EMAIL_HOST_PASSWORD) >>

(* C9: the collector's list is in source priority order, holds no key      *)
(* twice, and each candidate carries the tag of the highest-priority       *)
(* source that yields its key; a source whose normalised value is empty    *)
(* contributes nothing, the list is empty when no source yields a key, and *)
(* a yielded key is absent only when an earlier source's different key has *)
(* the same fingerprint.                                                   *)
C9_CollectorOrderAndDedup ==
    (top = "collect" /\ pc = "done") =>
        /\ \A i, j \in 1..Len(out) : i < j => Rank(out[i].source) < Rank(out[j].source)
        /\ \A i, j \in 1..Len(out) : i # j => out[i].key # out[j].key
        /\ \A i \in 1..Len(out) :
              /\ out[i].key # << >>
              /\ out[i].key = Produced[Rank(out[i].source)]
              /\ \A r \in 1..(Rank(out[i].source) - 1) : Produced[r] # out[i].key
        /\ \A r \in 1..Len(Produced) :
              Produced[r] # << >> =>
                 \/ \E i \in 1..Len(out) : out[i].key = Produced[r]
                 \/ \E q \in 1..(r - 1) :
                       /\ Produced[q] # << >> /\ Produced[q] # Produced[r]
                       /\ _fingerprint(Produced[q]) = _fingerprint(Produced[r])
        /\ (\A r \in 1..Len(Produced) : Produced[r] = << >>) => out = << >>

\* settings and environment hold the same key written differently; the one
\* candidate for it is the settings one
C9_Witness ==
    /\ top = "collect" /\ pc = "done"
    /\ settings.SENDGRID_API_KEY = <<DQ, "x", DQ>>
    /\ environ.SENDGRID_API_KEY = KeyX
    /\ secret = SecretFails
    /\ settings.EMAIL_HOST_PASSWORD = KeyYX
    /\ out = << [source |-> SrcSettingsKey, key |-> KeyX],
                [source |-> SrcSettingsPw, key |-> KeyYX] >>

\* the members of the payload that hold a non-blank string
NonBlank(f) == f.val.isStr /\ Strip(f.val.s) # << >>

\* the indices in KeyNames of the names under which the payload holds a
\* non-blank string
ListedUsable ==
    {i \in 1..Len(KeyNames) :
        \E j \in 1..Len(args.fields) :
            args.fields[j].name = KeyNames[i] /\ NonBlank(args.fields[j])}

FieldNamed(n) == CHOOSE j \in 1..Len(args.fields) : args.fields[j].name = n

\* a member name with its letters in lower case
FoldCase(n) ==
    CASE n = "SendGrid_email" -> "sendgrid_email"
      [] n = "SENDGRID_EMAIL" -> "sendgrid_email"
      [] n = "SENDGRID_API_KEY" -> "sendgrid_api_key"
      [] n = "API_KEY" -> "api_key"
      [] n = "SENDGRID_KEY" -> "sendgrid_key"
      [] OTHER -> n

\* the payload holds a non-blank string under some casing of a recognized name
AnyCasingUsable ==
    \E j \in 1..Len(args.fields) :
        /\ NonBlank(args.fields[j])
        /\ \E i \in 1..Len(KeyNames) : FoldCase(args.fields[j].name) = FoldCase(KeyNames[i])

(* C10 as stated: for a JSON object payload holding a non-blank string     *)
(* under a recognized member name in any of its casing variants, the       *)
(* extraction returns a member's normalised value, never the raw JSON text.*)
C10_Original ==
    (top = "extract" /\ pc = "done" /\ AnyCasingUsable) =>
        /\ out # _sanitize_secret(PayloadText(args))
        /\ \E j \in 1..Len(args.fields) :
              NonBlank(args.fields[j]) /\ out = _sanitize_secret(args.fields[j].val.s)

(* C10, amended: for a JSON object payload holding a non-blank string      *)
(* under one of the nine member names spelled exactly as the code lists    *)
(* them, the extraction returns the normalised value of the first such     *)
(* member in the fixed name order, never the raw JSON text.                *)
C10_Amended ==
    (top = "extract" /\ pc = "done" /\ ListedUsable # {}) =>
        /\ out = _sanitize_secret(
                    args.fields[FieldNamed(KeyNames[MinOrZero(ListedUsable)])].val.s)
        /\ out # _sanitize_secret(PayloadText(args))

\* two listed members in the payload, the later one first in the name order
C10_Witness ==
    /\ top = "extract" /\ pc = "done" /\ args.spaced
    /\ Len(args.fields) = 2
    /\ args.fields[1].name = "sendgrid_key" /\ args.fields[1].val = JsonStringOf(KeySG)
    /\ args.fields[2].name = "SendGrid_email"
    /\ args.fields[2].val = JsonStringOf(<<SP, DQ, "x", DQ>>)
    /\ out = KeyX

\* the SMTP sessions opened so far (lines 399-421), the probe not counted
IsSession(o) == o # "probe"

SmtpSessions == SelectSeq(smtpNet, IsSession)

(* C11 as stated: an SMTP send that fails with a disconnect is retried, up  *)
(* to 3 attempts in total: the transport reports a disconnect as its        *)
(* failure only after the third session, and any other failure after the   *)
(* session in which it happened, without a retry.                           *)
C11_DisconnectRetried ==
    \A t \in 1..Len(results) :
        (invoked[t].provider = "smtp" /\ ~results[t].ok
            /\ results[t].err # "No SMTP password available") =>
            /\ results[t].err = "SMTPServerDisconnected" => Len(SmtpSessions) = 3
            /\ results[t].err # "SMTPServerDisconnected" =>
                  \A i \in 1..(Len(SmtpSessions) - 1) :
                      SmtpSessions[i] = "SMTPServerDisconnected"

\* neither the settings password nor the collector gives an SMTP password
NoSmtpPassword ==
    /\ _sanitize_secret(settings.EMAIL_HOST_PASSWORD) = << >>
    /\ _iter_sendgrid_api_key_candidates(secret, settings, environ) = << >>

NoPasswordError == "No SMTP password available"

(* C12 as stated: when no SMTP password is available, the SMTP transport   *)
(* returns success = false with the error "No SMTP password available"     *)
(* and has made no network call of any kind to the SMTP host (no TCP       *)
(* probe, no connection).                                                  *)
C12_Original ==
    \A t \in 1..Len(results) :
        (invoked[t].provider = "smtp" /\ NoSmtpPassword) =>
            /\ ~results[t].ok
            /\ results[t].err = NoPasswordError
            /\ smtpNet = << >>

(* C12, amended: the SMTP transport returns the error "No SMTP password    *)
(* available" exactly when neither the settings password nor the collector *)
(* gives a password; it then returns success = false with no status code,  *)
(* having made exactly one TCP probe of the SMTP host and opened no SMTP   *)
(* session.                                                                *)
C12_Amended ==
    \A t \in 1..Len(results) :
        invoked[t].provider = "smtp" =>
            /\ (results[t].err = NoPasswordError) <=> NoSmtpPassword
            /\ NoSmtpPassword =>
                  /\ ~results[t].ok
                  /\ results[t].status = NoStatus
                  /\ smtpNet = <<"probe">>
                  /\ SmtpSessions = << >>

\* the SMTP transport, tried first, has returned for want of a password
C12_Witness ==
    /\ NoSmtpPassword /\ Len(results) >= 1
    /\ invoked[1].provider = "smtp"
    /\ results[1].err = NoPasswordError
    /\ smtpNet = <<"probe">>

(* C13 as stated: no transport and no orchestrator call raises: whatever   *)
(* the subject, the recipients and the outcome of each step, every         *)
(* transport invoked returns a result and the orchestrator returns a       *)
(* boolean.                                                                *)
C13_NeverRaises ==
    /\ ret # "raised"
    /\ (top = "send" /\ pc = "done") =>
          /\ ret \in {"True", "False"}
          /\ Len(results) = Len(invoked)

(* C14 as stated: for every non-empty key, the diagnostic a transport      *)
(* returns never holds the complete key: beside the fingerprint it shows   *)
(* only a redacted tail, which is "<short>" or a proper suffix of the key. *)
C14_NoRawKeyInDiag ==
    (top = "sendgrid" /\ pc = "done" /\ Len(results) = 1 /\ results[1].ok) =>
        \E k \in {http[Len(http)].key} :
        \E tl \in {results[1].diag.sendgrid_api_key_tail} :
            /\ k # << >>
            /\ tl # k
            /\ tl = ShortTail \/ (Len(tl) < Len(k) /\ EndsWith(k, tl))

\* the failures the body of get_secret_string meets, and its successes
FailureModes == {"boto3_unavailable", "raise", "SecretBinaryBad"}
SuccessModes == {"SecretString", "SecretBinary"}

\* the error text each failure leaves
ErrorOf(l) ==
    CASE l.mode = "boto3_unavailable" -> "boto3_unavailable"
      [] l.mode = "SecretBinaryBad" -> "decode_error"
      [] OTHER -> l.own

(* C15: get_secret_string returns from every failure (library missing,     *)
(* credentials missing, network failure, access denied or not found,       *)
(* decode failure) with None and a non-empty error text, naming the        *)
(* failure, that get_last_error gives; from a success it returns the       *)
(* stripped secret text and get_last_error gives the empty string.         *)
C15_ResolverReportsFailure ==
    \A t \in Threads :
        (thr[t].pc = "returned" /\ thr[t].ran) =>
            /\ thr[t].mode \in FailureModes =>
                  /\ thr[t].val = None
                  /\ lastError # "" /\ lastError = ErrorOf(thr[t])
            /\ thr[t].mode = "raise" =>
                  lastError \in {"NoCredentialsError", "EndpointConnectionError",
                                 "ClientError"}
            /\ thr[t].mode \in SuccessModes =>
                  /\ thr[t].val = Strip(thr[t].text) /\ thr[t].val # None
                  /\ lastError = ""

\* a binary secret that does not decode, after an earlier success
C15_Witness ==
    /\ thr[1].pc = "returned" /\ thr[1].mode = "SecretBinaryBad"
    /\ thr[1].val = None /\ lastError = "decode_error"
    /\ Len(lookupLog) = 1 /\ lookupLog[1].mode = "SecretString"

\* a lookup that ran the body and got the secret
Succeeded(e) == e.ran /\ e.mode \in SuccessModes

EarlierCached(j) ==
    {i \in 1..(j - 1) :
        lookupLog[i].via = "cached" /\ lookupLog[i].key = lookupLog[j].key}

C17_OwnErrorObserved ==
    \A i \in 1..Len(lookupLog) :
        lookupLog[i].via = "uncached" => lookupLog[i].err = lookupLog[i].own

\* the position of the first transport outcome that is a success, 0 if none
FirstOk ==
    IF \E t \in 1..Len(results) : results[t].ok
    THEN CHOOSE t \in 1..Len(results) :
             results[t].ok /\ \A u \in 1..(t - 1) : ~results[u].ok
    ELSE 0

(* C18: whether the attempt-log sink accepts or rejects every write, a     *)
(* call that returns has invoked the transports of the resolved order up   *)
(* to the first success, has handed every row to the log, and returns True *)
(* exactly when a transport succeeded: the transports invoked and the      *)
(* boolean depend on the request, the configuration and the transport      *)
(* outcomes only.                                                          *)
C18_SinkFailureSwallowed ==
    (top = "send" /\ pc = "done" /\ ret # "raised") =>
        /\ Returned
        /\ ~ValidRequest => invoked = << >> /\ ret = "False"
        /\ ValidRequest =>
              /\ providers = ProvidersFor(_get_backend_mode(settings, secret, environ))
              /\ [t \in 1..Len(invoked) |-> invoked[t].provider]
                    = SubSeq(providers, 1, Len(results))
              /\ Len(results) = IF FirstOk = 0 THEN Len(providers) ELSE FirstOk
              /\ ret = IF FirstOk = 0 THEN "False" ELSE "True"
              /\ Len(logCalls) = Len(recipients) * Len(results)

\* every log write fails, the primary fails and the fallback succeeds
C18_Witness ==
    /\ top = "send" /\ pc = "done" /\ ~sinkUp
    /\ ret = "True" /\ Len(invoked) = 2 /\ ~results[1].ok /\ results[2].ok
    /\ Len(logCalls) >= 2 /\ emailLog = << >>

(* C19: every key of the collector's list is non-empty and fully           *)
(* normalised: normalising it again returns it unchanged, whatever the raw *)
(* source values were, a quoted value that starts with "Bearer " and a     *)
(* doubly quoted value included.                                           *)
C19_OutputKeysNormalised ==
    (top = "collect" /\ pc = "done") =>
        \A i \in 1..Len(out) :
            /\ out[i].key # << >>
            /\ _sanitize_secret(out[i].key) = out[i].key

\* the fields of the diagnostic payload the Web-API transport returned
ApiDiagFields == DOMAIN results[1].diag

(* C20: on every return path of the Web-API transport the diagnostic       *)
(* payload names the selected candidate source or an explicit none, tells  *)
(* how many candidates were tried (the payload's only list of candidates   *)
(* is as long as the number of requests made), and holds the final status  *)
(* code or error.                                                          *)
C20_DiagAlwaysComplete ==
    (top = "sendgrid" /\ pc = "done" /\ Len(results) = 1) =>
        /\ "selected_source" \in ApiDiagFields
        /\ Len(results[1].diag.candidates) = Len(http)
        /\ \/ "status_code" \in ApiDiagFields
           \/ {"last_status", "last_error"} \subseteq ApiDiagFields


\* the lookups of key through get_secret_string that ran the body
MemoSource(key) ==
    {i \in 1..Len(lookupLog) :
        /\ lookupLog[i].via = "cached" /\ lookupLog[i].ran
        /\ lookupLog[i].key = key}

\* the error text of the lookup whose result the memo holds for key
MemoError(key) ==
    IF MemoSource(key) = {} THEN ""
    ELSE lookupLog[CHOOSE i \in MemoSource(key) : TRUE].own

(* C21 as stated: when a call of get_secret_string has returned,           *)
(* get_last_error() gives the error text of that call: the text its own    *)
(* run of the body assigned, or, for a call answered from the memo, the    *)
(* text of the memoized lookup, empty when that lookup succeeded.          *)
C21_Original ==
    \A t \in Threads :
        (thr[t].pc = "returned" /\ thr[t].via = "cached") =>
            lastError = IF thr[t].ran THEN thr[t].own ELSE MemoError(thr[t].key)

\* the lookups that ran the body
BodyRuns == {i \in 1..Len(lookupLog) : lookupLog[i].ran}

\* the error text the latest finished run of the body assigned
LastRunError ==
    IF BodyRuns = {} THEN ""
    ELSE lookupLog[CHOOSE i \in BodyRuns : \A j \in BodyRuns : j <= i].own

(* C21, amended: with one caller at a time, get_last_error() gives the     *)
(* error text the most recent run of the body of get_secret_string         *)
(* assigned, empty when it assigned none or no run was made; a call        *)
(* answered from the memo runs no body and leaves it as it was, so after   *)
(* such a call it is still the text of the latest run, whatever name that  *)
(* run looked up.                                                          *)
C21_Amended ==
    /\ (\A t \in Threads : thr[t].pc \in {"idle", "off"}) => lastError = LastRunError
    /\ \A t \in Threads :
          /\ (thr[t].pc = "returned" /\ thr[t].ran) => lastError = thr[t].own
          /\ (thr[t].pc = "returned" /\ ~thr[t].ran) => lastError = LastRunError
          /\ thr[t].pc = "fetch" => lastError = ""

\* a failed lookup is memoized, another name is looked up with success, and
\* the first name is answered from the memo: None, with no error to read
C21_Witness ==
    /\ Len(lookupLog) = 2
    /\ lookupLog[1].via = "cached" /\ lookupLog[1].mode = "raise"
    /\ lookupLog[2].via = "cached" /\ Succeeded(lookupLog[2])
    /\ thr[1].pc = "returned" /\ thr[1].mode = "hit"
    /\ thr[1].key = lookupLog[1].key /\ thr[1].val = None
    /\ lastError = ""

\* the entry found when the call started is a non-blank str
EntryUsable(e) == e.kind = "str" /\ Strip(e.text) # << >>

(* C22: a call of get_catalog_json_cached that returns, made without       *)
(* force_refresh while the entry is a non-blank str, returns that entry    *)
(* and neither rebuilds nor writes the cache; in every other case it       *)
(* rebuilds the payload from the database, sets the new JSON under the one *)
(* cache key with the configured timeout and returns the string it set;    *)
(* no other key is written, and once a call has returned the entry, when   *)
(* present at a call boundary, is the output of the most recent rebuild.   *)
C22_CatalogCache ==
    /\ cat.pc = "returned" =>
          /\ (~cat.force /\ EntryUsable(cat.before)) =>
                /\ cat.ret = cat.before.text
                /\ ~cat.built /\ ~cat.wrote /\ cat.stored = Absent
          /\ (cat.force \/ ~EntryUsable(cat.before)) =>
                /\ cat.built /\ cat.wrote
                /\ rebuilt.some /\ cat.data = rebuilt.text
                /\ cat.stored = StrEntry(cat.data, _CATALOG_CACHE_SECONDS(catSeconds))
                /\ cat.ret = cat.stored.text
                /\ Strip(cat.ret) # << >>
    /\ catalogCache[StaleKey] \in {Absent, StaleEntry}
    /\ (cat.pc \in {"idle", "returned"} /\ cat.done > 0
            /\ catalogCache[_CATALOG_CACHE_KEY] # Absent) =>
          /\ rebuilt.some
          /\ catalogCache[_CATALOG_CACHE_KEY].kind = "str"
          /\ catalogCache[_CATALOG_CACHE_KEY].text = rebuilt.text

\* a blank entry is found without force_refresh: the payload is rebuilt, set
\* with the default timeout although the setting is 0, and returned
C22_Witness ==
    /\ cat.pc = "returned" /\ ~cat.force
    /\ cat.before = StrEntry(<<SP>>, DefaultCacheSeconds)
    /\ catSeconds = [set |-> TRUE, val |-> 0]
    /\ db = <<"v1">>
    /\ cat.ret = DumpsCatalog(<<"v1">>)
    /\ catalogCache[_CATALOG_CACHE_KEY] = StrEntry(cat.ret, DefaultCacheSeconds)
=============================================================================
